---- MODULE Spec2Model ----
(***************************************************************************)
(* Model of libmaple/rcc.c: the STM32 reset and clock control driver.     *)
(*                                                                         *)
(* A 32-bit register value is modelled as the set of the positions of its *)
(* set bits (a subset of 0..31): bitwise OR is union, AND is              *)
(* intersection, NOT is the complement in 0..31, and (n << k) keeps the   *)
(* bits below position 32.  The driver uses no arithmetic on registers.   *)
(*                                                                         *)
(* Every driver function is split at its register accesses: one action    *)
(* per register read or write, so that call sites can be interleaved.     *)
(***************************************************************************)
EXTENDS Integers, Sequences, FiniteSets, TLC

VARIABLES
    mem,      \* the memory-mapped RCC registers: register name -> value
    pc,       \* per call site: position inside the driver function
    op,       \* per call site: the driver function being executed
    args,     \* per call site: the arguments of the call
    cr,       \* per call site: local variable cr of rcc_clk_init
    cfgr,     \* per call site: local variable cfgr (clk_init / set_prescaler)
    clk_domain, \* per call site: local variable clk_domain (clk_enable / reset_dev)
    pre,      \* history: the registers at the entry of the current call
    log,      \* history: the register writes of the current call, in order
    seen,     \* history: the confirmations the current call has read, in order
    prev,     \* history: function and device of the call site's previous call
    budget,   \* per call site: the number of calls it may still start
    callable  \* per call site: the driver functions it calls

vars == <<mem, pc, op, args, cr, cfgr, clk_domain, pre, log, seen, prev, budget, callable>>

----------------------------------------------------------------------------
(* Bounds of the model *)

MaxCalls == 2
MaxConcCalls == 1

----------------------------------------------------------------------------
(* 32-bit words *)

WordBits == 32

RECURSIVE BitsOf(_, _)
BitsOf(n, i) ==
    IF n = 0 THEN {}
    ELSE (IF n % 2 = 1 THEN {i} ELSE {}) \cup BitsOf(n \div 2, i + 1)

Shl(n, k) == {b \in BitsOf(n, k) : b < WordBits}
And(a, b) == a \cap b
Or(a, b) == a \cup b
Not(a) == (0 .. (WordBits - 1)) \ a
BIT(n) == Shl(1, n)

----------------------------------------------------------------------------
(* Registers and bit fields *)

Regs == {"RCC_CR", "RCC_CFGR", "RCC_APB2RSTR", "RCC_APB1RSTR",
         "RCC_AHBENR", "RCC_APB2ENR", "RCC_APB1ENR"}

RCC_CFGR_USBPRE == Shl(1, 22)
RCC_CFGR_ADCPRE == Shl(3, 14)
RCC_CFGR_PPRE1 == Shl(7, 8)
RCC_CFGR_PPRE2 == Shl(7, 11)
RCC_CFGR_HPRE == Shl(15, 4)
RCC_CFGR_PLLSRC == Shl(1, 16)

RCC_CFGR_SWS == Shl(3, 2)
RCC_CFGR_SWS_PLL == Shl(2, 2)

RCC_CFGR_SW == Shl(3, 0)
RCC_CFGR_SW_PLL == Shl(2, 0)

RCC_CR_HSEON == Shl(1, 16)
RCC_CR_HSERDY == Shl(1, 17)
RCC_CR_PLLON == Shl(1, 24)
RCC_CR_PLLRDY == Shl(1, 25)

(* rcc.h: the values callers pass *)
RCC_CLKSRC_HSE == Shl(1, 0)
RCC_CLKSRC_PLL == Shl(2, 0)
RCC_PLLSRC_HSE == Shl(1, 16)
RCC_PLLSRC_HSI_DIV_2 == Shl(0, 16)
RCC_PLLMUL_2 == Shl(0, 18)
RCC_PLLMUL_9 == Shl(7, 18)

Prescalers == {"RCC_PRESCALER_AHB", "RCC_PRESCALER_APB1", "RCC_PRESCALER_APB2",
               "RCC_PRESCALER_USB", "RCC_PRESCALER_ADC"}

masks_Swapped ==
    [p \in Prescalers |->
        CASE p = "RCC_PRESCALER_AHB" -> RCC_CFGR_HPRE
          [] p = "RCC_PRESCALER_APB1" -> RCC_CFGR_PPRE2
          [] p = "RCC_PRESCALER_APB2" -> RCC_CFGR_PPRE1
          [] p = "RCC_PRESCALER_USB" -> RCC_CFGR_USBPRE
          [] p = "RCC_PRESCALER_ADC" -> RCC_CFGR_ADCPRE]

masks ==
    [p \in Prescalers |->
        CASE p = "RCC_PRESCALER_AHB" -> RCC_CFGR_HPRE
          [] p = "RCC_PRESCALER_APB1" -> RCC_CFGR_PPRE1
          [] p = "RCC_PRESCALER_APB2" -> RCC_CFGR_PPRE2
          [] p = "RCC_PRESCALER_USB" -> RCC_CFGR_USBPRE
          [] p = "RCC_PRESCALER_ADC" -> RCC_CFGR_ADCPRE]

----------------------------------------------------------------------------
(* Device descriptor table *)

Domains == {"APB1", "APB2", "AHB"}

rcc_dev_table_Shared ==
    [RCC_GPIOA  |-> [clk_domain |-> "APB2", line_num |-> 2],
     RCC_GPIOB  |-> [clk_domain |-> "APB2", line_num |-> 2],
     RCC_GPIOC  |-> [clk_domain |-> "APB2", line_num |-> 4],
     RCC_GPIOD  |-> [clk_domain |-> "APB2", line_num |-> 5],
     RCC_AFIO   |-> [clk_domain |-> "APB2", line_num |-> 0],
     RCC_ADC1   |-> [clk_domain |-> "APB2", line_num |-> 9],
     RCC_USART1 |-> [clk_domain |-> "APB2", line_num |-> 14],
     RCC_USART2 |-> [clk_domain |-> "APB1", line_num |-> 17],
     RCC_USART3 |-> [clk_domain |-> "APB1", line_num |-> 18],
     RCC_TIMER1 |-> [clk_domain |-> "APB2", line_num |-> 11],
     RCC_TIMER2 |-> [clk_domain |-> "APB1", line_num |-> 0],
     RCC_TIMER3 |-> [clk_domain |-> "APB1", line_num |-> 1],
     RCC_TIMER4 |-> [clk_domain |-> "APB1", line_num |-> 2]]

rcc_dev_table ==
    [RCC_GPIOA  |-> [clk_domain |-> "APB2", line_num |-> 2],
     RCC_GPIOB  |-> [clk_domain |-> "APB2", line_num |-> 3],
     RCC_GPIOC  |-> [clk_domain |-> "APB2", line_num |-> 4],
     RCC_GPIOD  |-> [clk_domain |-> "APB2", line_num |-> 5],
     RCC_AFIO   |-> [clk_domain |-> "APB2", line_num |-> 0],
     RCC_ADC1   |-> [clk_domain |-> "APB2", line_num |-> 9],
     RCC_USART1 |-> [clk_domain |-> "APB2", line_num |-> 14],
     RCC_USART2 |-> [clk_domain |-> "APB1", line_num |-> 17],
     RCC_USART3 |-> [clk_domain |-> "APB1", line_num |-> 18],
     RCC_TIMER1 |-> [clk_domain |-> "APB2", line_num |-> 11],
     RCC_TIMER2 |-> [clk_domain |-> "APB1", line_num |-> 0],
     RCC_TIMER3 |-> [clk_domain |-> "APB1", line_num |-> 1],
     RCC_TIMER4 |-> [clk_domain |-> "APB1", line_num |-> 2]]

DevIds == DOMAIN rcc_dev_table

enable_regs ==
    [d \in Domains |->
        CASE d = "APB1" -> "RCC_APB1ENR"
          [] d = "APB2" -> "RCC_APB2ENR"
          [] d = "AHB" -> "RCC_AHBENR"]

reset_regs_Swapped ==
    [d \in {"APB1", "APB2"} |->
        CASE d = "APB1" -> "RCC_APB2RSTR"
          [] d = "APB2" -> "RCC_APB1RSTR"]

reset_regs ==
    [d \in {"APB1", "APB2"} |->
        CASE d = "APB1" -> "RCC_APB1RSTR"
          [] d = "APB2" -> "RCC_APB2RSTR"]

(* An identifier outside the table indexes past its end: the read yields  *)
(* whatever bytes lie there.  The same holds for a domain outside the     *)
(* register table it indexes; "elsewhere" is an address outside the RCC   *)
(* register block.                                                        *)
UndefDev == "RCC_UNDEFINED"
OobDomains == {"AHB", "OOB"}
OobLines == {5}
OobRegs == {"RCC_CFGR", "elsewhere"}

DevInfo(dev) ==
    IF dev \in DevIds THEN {rcc_dev_table[dev]}
    ELSE [clk_domain : OobDomains, line_num : OobLines]

EnableReg(d) ==
    IF d \in DOMAIN enable_regs THEN {enable_regs[d]} ELSE OobRegs

ResetReg(d) ==
    IF d \in DOMAIN reset_regs THEN {reset_regs[d]} ELSE OobRegs

----------------------------------------------------------------------------
(* Call sites and the inputs of the calls *)

Threads == {"main", "irq"}

SysclkSrcs == {RCC_CLKSRC_PLL, RCC_CLKSRC_HSE}
PllSrcs == {RCC_PLLSRC_HSE, RCC_PLLSRC_HSI_DIV_2}
PllMuls == {RCC_PLLMUL_9, RCC_PLLMUL_2}
DevArgs == DevIds \cup {UndefDev}
(* AHB /2, APB1 /2, ADC /6 and no division *)
Dividers == {Shl(8, 4), Shl(4, 8), Shl(2, 14), Shl(0, 0)}

NoArgs == [dev |-> "none", prescaler |-> "none", divider |-> {},
           sysclk_src |-> {}, pll_src |-> {}, pll_mul |-> {}]
NoCall == [op |-> "none", dev |-> "none"]
Ops == {"rcc_clk_init", "rcc_clk_enable", "rcc_set_prescaler", "rcc_reset_dev"}

(* Initial register contents *)
ZeroRegs == [r \in Regs |-> {}]
InitFills == {{}, {0, 2, 17, 31}}
RunningCr == Or(BIT(0), Or(Or(RCC_CR_HSEON, RCC_CR_HSERDY),
                           Or(RCC_CR_PLLON, RCC_CR_PLLRDY)))
RunningCfgr == Or(Or(RCC_CFGR_SW_PLL, RCC_CFGR_SWS_PLL),
                  Or(Or(RCC_PLLSRC_HSE, RCC_PLLMUL_9), Shl(4, 8)))
InitClock == {<<{}, {}>>, <<RunningCr, RunningCfgr>>}

InitRegs ==
    {[r \in Regs |-> CASE r = "RCC_CR" -> c[1]
                       [] r = "RCC_CFGR" -> c[2]
                       [] OTHER -> f] :
        c \in InitClock, f \in InitFills}

InitCommon ==
    /\ mem \in InitRegs
    /\ pc = [t \in Threads |-> "idle"]
    /\ op = [t \in Threads |-> "none"]
    /\ args = [t \in Threads |-> NoArgs]
    /\ cr = [t \in Threads |-> {}]
    /\ cfgr = [t \in Threads |-> {}]
    /\ clk_domain = [t \in Threads |-> "none"]
    /\ pre = [t \in Threads |-> ZeroRegs]
    /\ log = [t \in Threads |-> <<>>]
    /\ seen = [t \in Threads |-> <<>>]
    /\ prev = [t \in Threads |-> NoCall]

(* One call site: the driver is used as its contract demands *)
Init ==
    /\ InitCommon
    /\ budget = [t \in Threads |-> IF t = "main" THEN MaxCalls ELSE 0]
    /\ callable = [t \in Threads |-> IF t = "main" THEN Ops ELSE {}]

(* Two call sites with no serialisation: the main line makes one call of *)
(* any driver function, an interrupt handler changes prescalers.          *)
InitConc ==
    /\ InitCommon
    /\ mem = ZeroRegs
    /\ budget = [t \in Threads |-> IF t = "main" THEN 1 ELSE MaxConcCalls]
    /\ callable = [t \in Threads |-> IF t = "main" THEN Ops ELSE {"rcc_set_prescaler"}]

----------------------------------------------------------------------------
(* Register access primitives and assertion (libmaple.h, util.h) *)

Halted == \E t \in Threads : pc[t] = "fault"

(* The status bits are owned by the clock hardware: a store to the        *)
(* register does not change them.                                         *)
ReadOnly(r) ==
    CASE r = "RCC_CR" -> Or(RCC_CR_HSERDY, RCC_CR_PLLRDY)
      [] r = "RCC_CFGR" -> RCC_CFGR_SWS
      [] OTHER -> {}

(* __write(reg, val) by call site t *)
Write(t, r, v) ==
    /\ mem' = IF r \in Regs
              THEN [mem EXCEPT ![r] = Or(And(v, Not(ReadOnly(r))),
                                         And(@, ReadOnly(r)))]
              ELSE mem
    /\ log' = [log EXCEPT ![t] = Append(@, <<r, v>>)]

(* __set_bits(reg, mask) / __clear_bits(reg, mask): one atomic update *)
SetBits(t, r, m) == Write(t, r, IF r \in Regs THEN Or(mem[r], m) ELSE m)
ClearBits(t, r, m) == Write(t, r, IF r \in Regs THEN And(mem[r], Not(m)) ELSE {})

Goto(t, l) == pc' = [pc EXCEPT ![t] = l]

(* ASSERT(exp): a failed assertion never returns *)
ASSERT(t, exp, next) == Goto(t, IF exp THEN next ELSE "fault")

Enter(t, o, a, l) ==
    /\ pc[t] = "idle"
    /\ ~Halted
    /\ budget[t] > 0
    /\ o \in callable[t]
    /\ budget' = [budget EXCEPT ![t] = @ - 1]
    /\ Goto(t, l)
    /\ op' = [op EXCEPT ![t] = o]
    /\ args' = [args EXCEPT ![t] = a]
    /\ pre' = [pre EXCEPT ![t] = mem]
    /\ UNCHANGED <<mem, cr, cfgr, clk_domain, log, seen, prev, callable>>

At(t, o, l) == pc[t] = l /\ op[t] = o /\ ~Halted

----------------------------------------------------------------------------
(* rcc_clk_init *)

CallClkInit(t) ==
    \E s \in SysclkSrcs, p \in PllSrcs, m \in PllMuls :
        Enter(t, "rcc_clk_init",
              [NoArgs EXCEPT !.sysclk_src = s, !.pll_src = p, !.pll_mul = m],
              "ci_assert")

ArgsValid_Or(a) == a.sysclk_src = RCC_CLKSRC_PLL \/ a.pll_src = RCC_PLLSRC_HSE

ArgsValid(a) == a.sysclk_src = RCC_CLKSRC_PLL /\ a.pll_src = RCC_PLLSRC_HSE

(* ASSERT(sysclk_src == RCC_CLKSRC_PLL && pll_src == RCC_PLLSRC_HSE) *)
ClkInitAssert(t) ==
    /\ At(t, "rcc_clk_init", "ci_assert")
    /\ ASSERT(t, ArgsValid(args[t]), "ci_read_cr")
    /\ UNCHANGED <<mem, op, args, cr, cfgr, clk_domain, pre, log, seen, prev, budget, callable>>

ClkInitReadCr_KeepCfgr(t) ==
    /\ At(t, "rcc_clk_init", "ci_read_cr")
    /\ cr' = [cr EXCEPT ![t] = mem["RCC_CR"]]
    /\ cfgr' = [cfgr EXCEPT ![t] = Or(mem["RCC_CFGR"], Or(args[t].pll_src, args[t].pll_mul))]
    /\ Goto(t, "ci_write_cfgr")
    /\ UNCHANGED <<mem, op, args, clk_domain, pre, log, seen, prev, budget, callable>>

(* uint32 cfgr = 0; uint32 cr = RCC_READ_CR(); cfgr = (pll_src | pll_mul); *)
ClkInitReadCr(t) ==
    /\ At(t, "rcc_clk_init", "ci_read_cr")
    /\ cr' = [cr EXCEPT ![t] = mem["RCC_CR"]]
    /\ cfgr' = [cfgr EXCEPT ![t] = Or(args[t].pll_src, args[t].pll_mul)]
    /\ Goto(t, "ci_write_cfgr")
    /\ UNCHANGED <<mem, op, args, clk_domain, pre, log, seen, prev, budget, callable>>

ClkInitWriteCfgr_Switches(t) ==
    /\ At(t, "rcc_clk_init", "ci_write_cfgr")
    /\ Write(t, "RCC_CFGR", Or(cfgr[t], RCC_CFGR_SW_PLL))
    /\ Goto(t, "ci_hse_on")
    /\ UNCHANGED <<op, args, cr, cfgr, clk_domain, pre, seen, prev, budget, callable>>

(* RCC_WRITE_CFGR(cfgr); *)
ClkInitWriteCfgr(t) ==
    /\ At(t, "rcc_clk_init", "ci_write_cfgr")
    /\ Write(t, "RCC_CFGR", cfgr[t])
    /\ Goto(t, "ci_hse_on")
    /\ UNCHANGED <<op, args, cr, cfgr, clk_domain, pre, seen, prev, budget, callable>>

ClkInitHseOn_Deferred(t) ==
    /\ At(t, "rcc_clk_init", "ci_hse_on")
    /\ cr' = [cr EXCEPT ![t] = Or(@, RCC_CR_HSEON)]
    /\ Goto(t, "ci_wait_hse")
    /\ UNCHANGED <<mem, log, op, args, cfgr, clk_domain, pre, seen, prev, budget, callable>>

(* cr |= RCC_CR_HSEON; RCC_WRITE_CR(cr); *)
ClkInitHseOn(t) ==
    /\ At(t, "rcc_clk_init", "ci_hse_on")
    /\ cr' = [cr EXCEPT ![t] = Or(@, RCC_CR_HSEON)]
    /\ Write(t, "RCC_CR", cr'[t])
    /\ Goto(t, "ci_wait_hse")
    /\ UNCHANGED <<op, args, cfgr, clk_domain, pre, seen, prev, budget, callable>>

(* One iteration of a wait loop: read the register, leave the loop when   *)
(* the condition holds, otherwise read again.                             *)
Poll(t, here, ready, what, next) ==
    /\ At(t, "rcc_clk_init", here)
    /\ IF ready
       THEN Goto(t, next) /\ seen' = [seen EXCEPT ![t] = Append(@, what)]
       ELSE UNCHANGED <<pc, seen>>
    /\ UNCHANGED <<mem, op, args, cr, cfgr, clk_domain, pre, log, prev, budget, callable>>

ClkInitWaitHse_NoWait(t) ==
    /\ At(t, "rcc_clk_init", "ci_wait_hse")
    /\ Goto(t, "ci_pll_on")
    /\ seen' = [seen EXCEPT ![t] = IF And(mem["RCC_CR"], RCC_CR_HSERDY) # {}
                                   THEN Append(@, "HSERDY") ELSE @]
    /\ UNCHANGED <<mem, op, args, cr, cfgr, clk_domain, pre, log, prev, budget, callable>>

(* while (!(RCC_READ_CR() & RCC_CR_HSERDY)) ; *)
ClkInitWaitHse(t) ==
    Poll(t, "ci_wait_hse", And(mem["RCC_CR"], RCC_CR_HSERDY) # {},
         "HSERDY", "ci_pll_on")

ClkInitPllOn_Assign(t) ==
    /\ At(t, "rcc_clk_init", "ci_pll_on")
    /\ cr' = [cr EXCEPT ![t] = RCC_CR_PLLON]
    /\ Write(t, "RCC_CR", cr'[t])
    /\ Goto(t, "ci_wait_pll")
    /\ UNCHANGED <<op, args, cfgr, clk_domain, pre, seen, prev, budget, callable>>

ClkInitPllOn_Reread(t) ==
    /\ At(t, "rcc_clk_init", "ci_pll_on")
    /\ cr' = [cr EXCEPT ![t] = Or(mem["RCC_CR"], RCC_CR_PLLON)]
    /\ Write(t, "RCC_CR", cr'[t])
    /\ Goto(t, "ci_wait_pll")
    /\ UNCHANGED <<op, args, cfgr, clk_domain, pre, seen, prev, budget, callable>>

(* cr |= RCC_CR_PLLON; RCC_WRITE_CR(cr); *)
ClkInitPllOn(t) ==
    /\ At(t, "rcc_clk_init", "ci_pll_on")
    /\ cr' = [cr EXCEPT ![t] = Or(@, RCC_CR_PLLON)]
    /\ Write(t, "RCC_CR", cr'[t])
    /\ Goto(t, "ci_wait_pll")
    /\ UNCHANGED <<op, args, cfgr, clk_domain, pre, seen, prev, budget, callable>>

ClkInitWaitPll_Timeout(t) ==
    /\ At(t, "rcc_clk_init", "ci_wait_pll")
    /\ Goto(t, "ci_switch")
    /\ seen' = [seen EXCEPT ![t] = IF And(mem["RCC_CR"], RCC_CR_PLLRDY) # {}
                                   THEN Append(@, "PLLRDY") ELSE @]
    /\ UNCHANGED <<mem, op, args, cr, cfgr, clk_domain, pre, log, prev, budget, callable>>

(* while (!(RCC_READ_CR() & RCC_CR_PLLRDY)) ; *)
ClkInitWaitPll(t) ==
    Poll(t, "ci_wait_pll", And(mem["RCC_CR"], RCC_CR_PLLRDY) # {},
         "PLLRDY", "ci_switch")

(* cfgr &= ~RCC_CFGR_SW; cfgr |= RCC_CFGR_SW_PLL; RCC_WRITE_CFGR(cfgr); *)
ClkInitSwitch(t) ==
    /\ At(t, "rcc_clk_init", "ci_switch")
    /\ cfgr' = [cfgr EXCEPT ![t] = Or(And(@, Not(RCC_CFGR_SW)), RCC_CFGR_SW_PLL)]
    /\ Write(t, "RCC_CFGR", cfgr'[t])
    /\ Goto(t, "ci_wait_sws")
    /\ UNCHANGED <<op, args, cr, clk_domain, pre, seen, prev, budget, callable>>

ClkInitWaitSws_WrongField(t) ==
    Poll(t, "ci_wait_sws", And(mem["RCC_CFGR"], RCC_CFGR_SWS) = RCC_CFGR_SWS,
         "SWS", "ret")

(* while ((RCC_READ_CFGR() & RCC_CFGR_SWS) != RCC_CFGR_SWS_PLL) ; *)
ClkInitWaitSws(t) ==
    Poll(t, "ci_wait_sws", And(mem["RCC_CFGR"], RCC_CFGR_SWS) = RCC_CFGR_SWS_PLL,
         "SWS", "ret")

----------------------------------------------------------------------------
(* rcc_clk_enable *)

CallClkEnable(t) ==
    \E d \in DevArgs :
        Enter(t, "rcc_clk_enable", [NoArgs EXCEPT !.dev = d], "ce_set_bits")

ClkEnableSetBits_Store(t) ==
    /\ At(t, "rcc_clk_enable", "ce_set_bits")
    /\ \E info \in DevInfo(args[t].dev) :
         /\ clk_domain' = [clk_domain EXCEPT ![t] = info.clk_domain]
         /\ \E r \in EnableReg(info.clk_domain) :
              Write(t, r, BIT(info.line_num))
    /\ Goto(t, "ret")
    /\ UNCHANGED <<op, args, cr, cfgr, pre, seen, prev, budget, callable>>

ClkEnableSetBits_Toggle(t) ==
    /\ At(t, "rcc_clk_enable", "ce_set_bits")
    /\ \E info \in DevInfo(args[t].dev) :
         /\ clk_domain' = [clk_domain EXCEPT ![t] = info.clk_domain]
         /\ \E r \in EnableReg(info.clk_domain) :
              IF r \in Regs /\ info.line_num \in mem[r]
              THEN ClearBits(t, r, BIT(info.line_num))
              ELSE SetBits(t, r, BIT(info.line_num))
    /\ Goto(t, "ret")
    /\ UNCHANGED <<op, args, cr, cfgr, pre, seen, prev, budget, callable>>

(* uint8 clk_domain = rcc_dev_table[dev_num].clk_domain;                  *)
(* __set_bits(enable_regs[clk_domain], BIT(rcc_dev_table[dev_num].line_num)); *)
ClkEnableSetBits(t) ==
    /\ At(t, "rcc_clk_enable", "ce_set_bits")
    /\ \E info \in DevInfo(args[t].dev) :
         /\ clk_domain' = [clk_domain EXCEPT ![t] = info.clk_domain]
         /\ \E r \in EnableReg(info.clk_domain) :
              SetBits(t, r, BIT(info.line_num))
    /\ Goto(t, "ret")
    /\ UNCHANGED <<op, args, cr, cfgr, pre, seen, prev, budget, callable>>

----------------------------------------------------------------------------
(* rcc_set_prescaler *)

CallSetPrescaler(t) ==
    \E p \in Prescalers, d \in Dividers :
        Enter(t, "rcc_set_prescaler",
              [NoArgs EXCEPT !.prescaler = p, !.divider = d], "sp_read_cfgr")

(* uint32 cfgr = RCC_READ_CFGR(); *)
SetPrescalerReadCfgr(t) ==
    /\ At(t, "rcc_set_prescaler", "sp_read_cfgr")
    /\ cfgr' = [cfgr EXCEPT ![t] = mem["RCC_CFGR"]]
    /\ Goto(t, "sp_write_cfgr")
    /\ UNCHANGED <<mem, op, args, cr, clk_domain, pre, log, seen, prev, budget, callable>>

SetPrescalerWriteCfgr_NoKeep(t) ==
    /\ At(t, "rcc_set_prescaler", "sp_write_cfgr")
    /\ cfgr' = [cfgr EXCEPT ![t] = args[t].divider]
    /\ Write(t, "RCC_CFGR", cfgr'[t])
    /\ Goto(t, "ret")
    /\ UNCHANGED <<op, args, cr, clk_domain, pre, seen, prev, budget, callable>>

SetPrescalerWriteCfgr_Atomic(t) ==
    /\ At(t, "rcc_set_prescaler", "sp_write_cfgr")
    /\ cfgr' = [cfgr EXCEPT ![t] =
                  Or(And(mem["RCC_CFGR"], Not(masks[args[t].prescaler])),
                     args[t].divider)]
    /\ Write(t, "RCC_CFGR", cfgr'[t])
    /\ Goto(t, "ret")
    /\ UNCHANGED <<op, args, cr, clk_domain, pre, seen, prev, budget, callable>>

(* cfgr &= ~masks[prescaler]; cfgr |= divider; RCC_WRITE_CFGR(cfgr); *)
SetPrescalerWriteCfgr(t) ==
    /\ At(t, "rcc_set_prescaler", "sp_write_cfgr")
    /\ cfgr' = [cfgr EXCEPT ![t] =
                  Or(And(@, Not(masks[args[t].prescaler])), args[t].divider)]
    /\ Write(t, "RCC_CFGR", cfgr'[t])
    /\ Goto(t, "ret")
    /\ UNCHANGED <<op, args, cr, clk_domain, pre, seen, prev, budget, callable>>

----------------------------------------------------------------------------
(* rcc_reset_dev *)

CallResetDev(t) ==
    \E d \in DevArgs :
        Enter(t, "rcc_reset_dev", [NoArgs EXCEPT !.dev = d], "rd_set_bits")

ResetDevSetBits_Clears(t) ==
    /\ At(t, "rcc_reset_dev", "rd_set_bits")
    /\ \E info \in DevInfo(args[t].dev) :
         /\ clk_domain' = [clk_domain EXCEPT ![t] = info.clk_domain]
         /\ \E r \in ResetReg(info.clk_domain) :
              ClearBits(t, r, BIT(info.line_num))
    /\ Goto(t, "rd_clear_bits")
    /\ UNCHANGED <<op, args, cr, cfgr, pre, seen, prev, budget, callable>>

(* uint8 clk_domain = rcc_dev_table[dev_num].clk_domain;                  *)
(* __set_bits(reset_regs[clk_domain], BIT(rcc_dev_table[dev_num].line_num)); *)
ResetDevSetBits(t) ==
    /\ At(t, "rcc_reset_dev", "rd_set_bits")
    /\ \E info \in DevInfo(args[t].dev) :
         /\ clk_domain' = [clk_domain EXCEPT ![t] = info.clk_domain]
         /\ \E r \in ResetReg(info.clk_domain) :
              SetBits(t, r, BIT(info.line_num))
    /\ Goto(t, "rd_clear_bits")
    /\ UNCHANGED <<op, args, cr, cfgr, pre, seen, prev, budget, callable>>

(* __clear_bits(reset_regs[clk_domain], BIT(rcc_dev_table[dev_num].line_num)); *)
ResetDevClearBits(t) ==
    /\ At(t, "rcc_reset_dev", "rd_clear_bits")
    /\ \E info \in DevInfo(args[t].dev) :
         \E r \in ResetReg(clk_domain[t]) :
              ClearBits(t, r, BIT(info.line_num))
    /\ Goto(t, "ret")
    /\ UNCHANGED <<op, args, cr, cfgr, clk_domain, pre, seen, prev, budget, callable>>

----------------------------------------------------------------------------
(* Return to the caller: the locals of the call die *)

Return(t) ==
    /\ pc[t] = "ret"
    /\ ~Halted
    /\ Goto(t, "idle")
    /\ prev' = [prev EXCEPT ![t] = [op |-> op[t], dev |-> args[t].dev]]
    /\ op' = [op EXCEPT ![t] = "none"]
    /\ args' = [args EXCEPT ![t] = NoArgs]
    /\ cr' = [cr EXCEPT ![t] = {}]
    /\ cfgr' = [cfgr EXCEPT ![t] = {}]
    /\ clk_domain' = [clk_domain EXCEPT ![t] = "none"]
    /\ pre' = [pre EXCEPT ![t] = ZeroRegs]
    /\ log' = [log EXCEPT ![t] = <<>>]
    /\ seen' = [seen EXCEPT ![t] = <<>>]
    /\ UNCHANGED <<mem, budget, callable>>

----------------------------------------------------------------------------
(* The clock hardware: it reports a status once the matching control bit  *)
(* is set, at a time of its own choosing.                                 *)

HwUnchanged == UNCHANGED <<pc, op, args, cr, cfgr, clk_domain, pre, log, seen, prev, budget, callable>>

HseReady ==
    /\ And(mem["RCC_CR"], RCC_CR_HSEON) # {}
    /\ And(mem["RCC_CR"], RCC_CR_HSERDY) = {}
    /\ mem' = [mem EXCEPT !["RCC_CR"] = Or(@, RCC_CR_HSERDY)]
    /\ HwUnchanged

PllReady ==
    /\ And(mem["RCC_CR"], RCC_CR_PLLON) # {}
    /\ And(mem["RCC_CR"], RCC_CR_PLLRDY) = {}
    /\ mem' = [mem EXCEPT !["RCC_CR"] = Or(@, RCC_CR_PLLRDY)]
    /\ HwUnchanged

ClockSwitched ==
    /\ And(mem["RCC_CFGR"], RCC_CFGR_SW) = RCC_CFGR_SW_PLL
    /\ And(mem["RCC_CFGR"], RCC_CFGR_SWS) # RCC_CFGR_SWS_PLL
    /\ mem' = [mem EXCEPT !["RCC_CFGR"] =
                 Or(And(@, Not(RCC_CFGR_SWS)), RCC_CFGR_SWS_PLL)]
    /\ HwUnchanged

----------------------------------------------------------------------------
ClkInitStep(t) ==
    \/ ClkInitAssert(t)
    \/ ClkInitReadCr(t)
    \/ ClkInitWriteCfgr(t)
    \/ ClkInitHseOn(t)
    \/ ClkInitWaitHse(t)
    \/ ClkInitPllOn(t)
    \/ ClkInitWaitPll(t)
    \/ ClkInitSwitch(t)
    \/ ClkInitWaitSws(t)

Next ==
    \/ \E t \in Threads : CallClkInit(t)
    \/ \E t \in Threads : ClkInitStep(t)
    \/ \E t \in Threads : CallClkEnable(t)
    \/ \E t \in Threads : ClkEnableSetBits(t)
    \/ \E t \in Threads : CallSetPrescaler(t)
    \/ \E t \in Threads : SetPrescalerReadCfgr(t)
    \/ \E t \in Threads : SetPrescalerWriteCfgr(t)
    \/ \E t \in Threads : CallResetDev(t)
    \/ \E t \in Threads : ResetDevSetBits(t)
    \/ \E t \in Threads : ResetDevClearBits(t)
    \/ \E t \in Threads : Return(t)
    \/ HseReady
    \/ PllReady
    \/ ClockSwitched

Spec == Init /\ [][Next]_vars

SpecConc == InitConc /\ [][Next]_vars

(* The processor keeps executing the running call and the clock hardware  *)
(* answers every request.                                                 *)
Fairness ==
    /\ \A t \in Threads : WF_vars(ClkInitStep(t))
    /\ WF_vars(HseReady)
    /\ WF_vars(PllReady)
    /\ WF_vars(ClockSwitched)

SpecFair == Spec /\ Fairness

----------------------------------------------------------------------------
(* Properties *)

InClkInit(t) == op[t] = "rcc_clk_init"
Confirmed(t) == {seen[t][i] : i \in 1 .. Len(seen[t])}
AllConfirmed == <<"HSERDY", "PLLRDY", "SWS">>

(* The writes of a log that go to register r and whose value satisfies P *)
WritesTo(l, r, P(_)) == {i \in 1 .. Len(l) : l[i][1] = r /\ P(l[i][2])}

HasPllOn(v) == And(v, RCC_CR_PLLON) # {}
HasHseOn(v) == And(v, RCC_CR_HSEON) # {}
SelectsPll(v) == And(v, RCC_CFGR_SW) = RCC_CFGR_SW_PLL

AfterPllOn == {"ci_wait_pll", "ci_switch", "ci_wait_sws", "ret"}
AfterSwitch == {"ci_wait_sws", "ret"}

(* C1: in rcc_clk_init every step follows the confirmation of the one     *)
(* before: the write of the control register that sets PLLON (the write   *)
(* of the PLL step, and any write that turns on a PLLON that was off at   *)
(* entry) has been preceded by a read of the control register that showed *)
(* HSERDY; the write of the configuration register that sets SW to PLL by *)
(* a read that showed PLLRDY; and the function returns only after a read  *)
(* of the configuration register that showed SWS = PLL.                   *)
C1_ConfirmedBeforeNextStep ==
    \A t \in Threads :
        InClkInit(t) =>
            /\ pc[t] \in AfterPllOn => "HSERDY" \in Confirmed(t)
            /\ (/\ ~HasPllOn(pre[t]["RCC_CR"])
                /\ WritesTo(log[t], "RCC_CR", HasPllOn) # {}) => "HSERDY" \in Confirmed(t)
            /\ pc[t] \in AfterSwitch => "PLLRDY" \in Confirmed(t)
            /\ WritesTo(log[t], "RCC_CFGR", SelectsPll) # {} => "PLLRDY" \in Confirmed(t)
            /\ pc[t] = "ret" => "SWS" \in Confirmed(t)

C1_Witness ==
    /\ InClkInit("main")
    /\ pc["main"] = "ret"
    /\ pre["main"]["RCC_CR"] = {}
    /\ WritesTo(log["main"], "RCC_CR", HasPllOn) # {}
    /\ WritesTo(log["main"], "RCC_CFGR", SelectsPll) # {}
    /\ Confirmed("main") = {"HSERDY", "PLLRDY", "SWS"}

(* C2: rcc_clk_init(PLL, HSE, mul) performs exactly four register writes, *)
(* in this order: the configuration register with the PLL source and the  *)
(* multiplier, the control register with HSEON set, the control register  *)
(* with PLLON set, the configuration register with SW = PLL; it writes no *)
(* other register.  (It holds from any starting registers, the reset      *)
(* defaults included.)                                                    *)
C2_WriteShape(t, i, w) ==
    CASE i = 1 -> /\ w[1] = "RCC_CFGR"
                  /\ Or(args[t].pll_src, args[t].pll_mul) \subseteq w[2]
      [] i = 2 -> w[1] = "RCC_CR" /\ HasHseOn(w[2])
      [] i = 3 -> w[1] = "RCC_CR" /\ HasPllOn(w[2])
      [] i = 4 -> w[1] = "RCC_CFGR" /\ SelectsPll(w[2])
      [] OTHER -> FALSE

C2_FourWritesInOrder ==
    \A t \in Threads :
        InClkInit(t) =>
            /\ \A i \in 1 .. Len(log[t]) : C2_WriteShape(t, i, log[t][i])
            /\ pc[t] = "ret" => Len(log[t]) = 4

C2_Witness ==
    /\ InClkInit("main")
    /\ pc["main"] = "ret"
    /\ pre["main"] = ZeroRegs
    /\ args["main"].pll_mul = RCC_PLLMUL_9
    /\ Len(log["main"]) = 4

(* C3: a call of rcc_clk_init with sysclk_src other than PLL or pll_src   *)
(* other than HSE stops at the assertion: it never gets past it, it       *)
(* writes no register, and all registers hold their values of before the  *)
(* call.                                                                  *)
C3_RejectedWithoutWrite ==
    \A t \in Threads :
        (/\ InClkInit(t)
         /\ \/ args[t].sysclk_src # RCC_CLKSRC_PLL
            \/ args[t].pll_src # RCC_PLLSRC_HSE)
        => /\ pc[t] \in {"ci_assert", "fault"}
           /\ log[t] = <<>>
           /\ mem = pre[t]

C3_Witness ==
    /\ pc["main"] = "fault"
    /\ args["main"].sysclk_src = RCC_CLKSRC_PLL
    /\ args["main"].pll_src # RCC_PLLSRC_HSE
    /\ mem["RCC_APB2ENR"] # {}

Returned(t, o) == pc[t] = "ret" /\ op[t] = o

(* C4: for an identifier of the device table, rcc_clk_enable sets bit     *)
(* line_num of the enable register of clk_domain and leaves every other   *)
(* bit of that register as it was.                                        *)
C4_EnableSetsOneBit ==
    \A t \in Threads :
        (Returned(t, "rcc_clk_enable") /\ args[t].dev \in DevIds) =>
            LET r == enable_regs[rcc_dev_table[args[t].dev].clk_domain]
                b == rcc_dev_table[args[t].dev].line_num
            IN  /\ b \in mem[r]
                /\ mem[r] \ {b} = pre[t][r] \ {b}

C4_Witness ==
    /\ Returned("main", "rcc_clk_enable")
    /\ args["main"].dev = "RCC_USART3"
    /\ pre["main"]["RCC_APB1ENR"] = {0, 2, 17, 31}
    /\ mem["RCC_APB1ENR"] = {0, 2, 17, 18, 31}

(* C5: rcc_clk_enable is idempotent: when a call for a device of the      *)
(* table directly follows a call for the same device, it leaves every     *)
(* register as the first call left it.                                    *)
C5_EnableIdempotent ==
    \A t \in Threads :
        (/\ Returned(t, "rcc_clk_enable")
         /\ args[t].dev \in DevIds
         /\ prev[t] = [op |-> "rcc_clk_enable", dev |-> args[t].dev])
        => mem = pre[t]

C5_Witness ==
    /\ Returned("main", "rcc_clk_enable")
    /\ args["main"].dev = "RCC_GPIOA"
    /\ prev["main"] = [op |-> "rcc_clk_enable", dev |-> "RCC_GPIOA"]
    /\ mem["RCC_APB2ENR"] = {2}

(* C6: for an identifier of the device table, rcc_reset_dev pulses bit    *)
(* line_num of the reset register of clk_domain: between its two register *)
(* accesses the bit is set, at the return the bit is clear whatever it    *)
(* was before, and every other bit of the register is as before the call. *)
C6_ResetPulse ==
    \A t \in Threads :
        (op[t] = "rcc_reset_dev" /\ args[t].dev \in DevIds) =>
            LET r == reset_regs[rcc_dev_table[args[t].dev].clk_domain]
                b == rcc_dev_table[args[t].dev].line_num
            IN  /\ pc[t] = "rd_clear_bits" => b \in mem[r]
                /\ pc[t] = "ret" => b \notin mem[r] /\ Len(log[t]) = 2
                /\ mem[r] \ {b} = pre[t][r] \ {b}

C6_Witness ==
    /\ Returned("main", "rcc_reset_dev")
    /\ args["main"].dev = "RCC_USART2"
    /\ 17 \in pre["main"]["RCC_APB1RSTR"]
    /\ 17 \in log["main"][1][2]
    /\ mem["RCC_APB1RSTR"] = {0, 2, 31}

(* C7 as stated: rcc_set_prescaler leaves every configuration-register    *)
(* bit outside the mask of its selector as it was, for every divider.     *)
C7_OnlyMaskBitsChange ==
    \A t \in Threads :
        Returned(t, "rcc_set_prescaler") =>
            LET m == masks[args[t].prescaler]
            IN  And(mem["RCC_CFGR"], Not(m)) = And(pre[t]["RCC_CFGR"], Not(m))

(* C7 amended: rcc_set_prescaler leaves every configuration-register bit  *)
(* that is outside the mask of its selector and not set in divider as it  *)
(* was, and sets the writable bits of divider, those outside the mask     *)
(* included; so it changes bits of the mask only when divider lies inside *)
(* the mask.                                                              *)
C7_OnlyMaskAndDividerBitsChange ==
    \A t \in Threads :
        Returned(t, "rcc_set_prescaler") =>
            LET m == masks[args[t].prescaler]
                d == args[t].divider
                keep == Not(Or(m, d))
            IN  /\ And(mem["RCC_CFGR"], keep) = And(pre[t]["RCC_CFGR"], keep)
                /\ And(d, Not(RCC_CFGR_SWS)) \subseteq mem["RCC_CFGR"]
                /\ d \subseteq m =>
                     And(mem["RCC_CFGR"], Not(m)) = And(pre[t]["RCC_CFGR"], Not(m))

C7_Witness ==
    /\ Returned("main", "rcc_set_prescaler")
    /\ args["main"].prescaler = "RCC_PRESCALER_USB"
    /\ args["main"].divider = Shl(8, 4)
    /\ pre["main"]["RCC_CFGR"] = RunningCfgr
    /\ mem["RCC_CFGR"] = Or(RunningCfgr, Shl(8, 4))

(* C8: the read-modify-write of rcc_set_prescaler is not atomic: the      *)
(* value it stores is built from the value it read earlier, whatever has  *)
(* been written to the configuration register since, so that the fields  *)
(* of other selectors are written back as they were at the read.  With    *)
(* two call sites this loses an update (C8_Witness).                      *)
C8_WritesBackWhatItRead ==
    [][\A t \in Threads :
         (pc[t] = "sp_write_cfgr" /\ pc'[t] = "ret") =>
             LET m == masks[args[t].prescaler]
                 w == log'[t][Len(log'[t])]
             IN  /\ w[1] = "RCC_CFGR"
                 /\ And(w[2], Not(Or(m, args[t].divider)))
                      = And(cfgr[t], Not(Or(m, args[t].divider)))]_vars

(* Both calls have stored their value, each divider lies inside the mask  *)
(* of its own selector, and the field main has set does not hold main's   *)
(* divider: the other call has overwritten it with the stale value.       *)
C8_Witness ==
    /\ Returned("main", "rcc_set_prescaler")
    /\ Returned("irq", "rcc_set_prescaler")
    /\ args["main"].prescaler = "RCC_PRESCALER_AHB"
    /\ args["main"].divider = Shl(8, 4)
    /\ args["irq"].prescaler = "RCC_PRESCALER_APB1"
    /\ args["irq"].divider = Shl(4, 8)
    /\ And(mem["RCC_CFGR"], RCC_CFGR_HPRE) # Shl(8, 4)
    /\ And(mem["RCC_CFGR"], RCC_CFGR_PPRE1) = Shl(4, 8)

(* C9: when the hardware answers every request, a call of rcc_clk_init    *)
(* that has passed its assertion returns, and it has then left the waits  *)
(* of oscillator enabling, PLL enabling and switching, in this order,     *)
(* each once.                                                             *)
C9_ClkInitReturns ==
    \A t \in Threads :
        (pc[t] = "ci_read_cr")
            ~> (/\ Returned(t, "rcc_clk_init")
                /\ seen[t] = AllConfirmed)

C9_Witness ==
    /\ Returned("main", "rcc_clk_init")
    /\ pre["main"] = ZeroRegs
    /\ seen["main"] = AllConfirmed
    /\ RCC_CR_HSERDY \subseteq mem["RCC_CR"]
    /\ RCC_CR_PLLRDY \subseteq mem["RCC_CR"]
    /\ And(mem["RCC_CFGR"], RCC_CFGR_SWS) = RCC_CFGR_SWS_PLL

Awaited(l) ==
    CASE l = "ci_wait_hse" -> And(mem["RCC_CR"], RCC_CR_HSERDY) # {}
      [] l = "ci_wait_pll" -> And(mem["RCC_CR"], RCC_CR_PLLRDY) # {}
      [] l = "ci_wait_sws" -> And(mem["RCC_CFGR"], RCC_CFGR_SWS) = RCC_CFGR_SWS_PLL

(* C10: the wait loops of rcc_clk_init have no timeout: as long as the    *)
(* awaited status is not set the call stays in its wait, does not return  *)
(* and writes no register.                                                *)
C10_NoEscapeFromWait ==
    [][\A t \in Threads : \A l \in {"ci_wait_hse", "ci_wait_pll", "ci_wait_sws"} :
         (pc[t] = l /\ ~Awaited(l)) => (pc'[t] = l /\ log'[t] = log[t])]_vars

C10_Witness ==
    /\ pc["main"] = "ci_wait_pll"
    /\ And(mem["RCC_CR"], RCC_CR_PLLRDY) = {}
    /\ RCC_CR_HSERDY \subseteq mem["RCC_CR"]
    /\ Len(log["main"]) = 3

GateReg(d) == enable_regs[rcc_dev_table[d].clk_domain]
GateBit(d) == rcc_dev_table[d].line_num
Gated(m, d) == GateBit(d) \in m[GateReg(d)]

(* C11: no two entries of rcc_dev_table share a control bit: two distinct *)
(* identifiers of the same clk_domain have different line_num, and every  *)
(* line_num is in 0..31; hence enabling one device of the table leaves    *)
(* the gating bit of every other device of the table as it was.           *)
C11_TableBitsDistinct ==
    /\ \A d \in DevIds :
         /\ rcc_dev_table[d].clk_domain \in Domains
         /\ rcc_dev_table[d].line_num \in 0 .. 31
    /\ \A d1, d2 \in DevIds :
         (d1 # d2 /\ rcc_dev_table[d1].clk_domain = rcc_dev_table[d2].clk_domain)
            => rcc_dev_table[d1].line_num # rcc_dev_table[d2].line_num
    /\ \A t \in Threads :
         (Returned(t, "rcc_clk_enable") /\ args[t].dev \in DevIds) =>
             \A d \in DevIds \ {args[t].dev} : Gated(mem, d) <=> Gated(pre[t], d)

C11_Witness ==
    /\ Returned("main", "rcc_clk_enable")
    /\ args["main"].dev = "RCC_GPIOB"
    /\ prev["main"] = [op |-> "rcc_clk_enable", dev |-> "RCC_GPIOA"]
    /\ mem["RCC_APB2ENR"] = {2, 3}

(* C12: a call of rcc_clk_enable or rcc_reset_dev with an identifier that *)
(* is not an entry of the device table fails at an assertion: it does not *)
(* get past its entry and writes no register.                             *)
C12_UndefinedIdRejected ==
    \A t \in Threads :
        (op[t] \in {"rcc_clk_enable", "rcc_reset_dev"} /\ args[t].dev \notin DevIds)
        => /\ pc[t] \in {"ce_set_bits", "rd_set_bits", "fault"}
           /\ log[t] = <<>>

(* C13: rcc_reset_dev for a peripheral of the AHB domain, which has no    *)
(* reset register, is rejected by an assertion: the call faults and       *)
(* writes no register.                                                    *)
C13_AhbResetRejected ==
    \A t \in Threads :
        (op[t] = "rcc_reset_dev" /\ clk_domain[t] = "AHB")
        => /\ pc[t] = "fault"
           /\ log[t] = <<>>

----------------------------------------------------------------------------
(* The public operations as functions from the registers at the call to   *)
(* the registers at the return, for one call site, valid arguments and    *)
(* hardware that answers.                                                 *)

Stored(m, r, v) ==
    [m EXCEPT ![r] = Or(And(v, Not(ReadOnly(r))), And(@, ReadOnly(r)))]

ClkEnableResult(m, d) ==
    LET r == enable_regs[rcc_dev_table[d].clk_domain]
    IN  Stored(m, r, Or(m[r], BIT(rcc_dev_table[d].line_num)))

ResetDevResult(m, d) ==
    LET r == reset_regs[rcc_dev_table[d].clk_domain]
        b == BIT(rcc_dev_table[d].line_num)
        m1 == Stored(m, r, Or(m[r], b))
    IN  Stored(m1, r, And(m1[r], Not(b)))

SetPrescalerResult(m, p, d) ==
    Stored(m, "RCC_CFGR", Or(And(m["RCC_CFGR"], Not(masks[p])), d))

ClkInitResult(m, src, mul) ==
    LET cfgr1 == Or(src, mul)
        m1 == Stored(m, "RCC_CFGR", cfgr1)
        cr1 == Or(m["RCC_CR"], RCC_CR_HSEON)
        m2 == Stored(m1, "RCC_CR", cr1)
        m3 == [m2 EXCEPT !["RCC_CR"] = Or(@, RCC_CR_HSERDY)]
        m4 == Stored(m3, "RCC_CR", Or(cr1, RCC_CR_PLLON))
        m5 == [m4 EXCEPT !["RCC_CR"] = Or(@, RCC_CR_PLLRDY)]
        m6 == Stored(m5, "RCC_CFGR", Or(And(cfgr1, Not(RCC_CFGR_SW)), RCC_CFGR_SW_PLL))
    IN  [m6 EXCEPT !["RCC_CFGR"] = Or(And(@, Not(RCC_CFGR_SWS)), RCC_CFGR_SWS_PLL)]

Calls ==
    {[op |-> o, args |-> [NoArgs EXCEPT !.dev = d]] :
        o \in {"rcc_clk_enable", "rcc_reset_dev"}, d \in DevIds}
    \cup {[op |-> "rcc_set_prescaler",
           args |-> [NoArgs EXCEPT !.prescaler = p, !.divider = d]] :
            p \in Prescalers, d \in Dividers}
    \cup {[op |-> "rcc_clk_init",
           args |-> [NoArgs EXCEPT !.sysclk_src = RCC_CLKSRC_PLL,
                                   !.pll_src = RCC_PLLSRC_HSE, !.pll_mul = m]] :
            m \in PllMuls}

CallResult(m, c) ==
    CASE c.op = "rcc_clk_enable" -> ClkEnableResult(m, c.args.dev)
      [] c.op = "rcc_reset_dev" -> ResetDevResult(m, c.args.dev)
      [] c.op = "rcc_set_prescaler" ->
            SetPrescalerResult(m, c.args.prescaler, c.args.divider)
      [] c.op = "rcc_clk_init" -> ClkInitResult(m, c.args.pll_src, c.args.pll_mul)

(* The functions agree with the step-by-step execution of the calls *)
CallResultIsExecution ==
    \A t \in Threads :
        (pc[t] = "ret" /\ [op |-> op[t], args |-> args[t]] \in Calls)
        => mem = CallResult(pre[t], [op |-> op[t], args |-> args[t]])

(* C14: the driver has a primitive that disables a peripheral clock: for  *)
(* every device of the table whose gating bit is set when a call of the   *)
(* driver has returned, there is a call of a public operation that        *)
(* returns with this bit cleared.                                         *)
C14_DisableProvided ==
    \A t \in Threads :
        (pc[t] = "idle" /\ prev[t].op # "none") =>
            \A d \in DevIds :
                Gated(mem, d) => \E c \in Calls : ~Gated(CallResult(mem, c), d)

----------------------------------------------------------------------------
BetweenCfgrWrites == {"ci_hse_on", "ci_wait_hse", "ci_pll_on", "ci_wait_pll", "ci_switch"}

Sw(v) == And(v, RCC_CFGR_SW)

(* C15 as stated: the first configuration-register write of rcc_clk_init  *)
(* leaves SW as it was at entry, whatever the register held, and SW is    *)
(* PLL after the final write.                                             *)
C15_FirstWriteKeepsSw ==
    \A t \in Threads :
        InClkInit(t) =>
            /\ pc[t] \in BetweenCfgrWrites =>
                 Sw(mem["RCC_CFGR"]) = Sw(pre[t]["RCC_CFGR"])
            /\ pc[t] \in AfterSwitch => Sw(mem["RCC_CFGR"]) = RCC_CFGR_SW_PLL

(* C15 amended: the first write stores pll_src | pll_mul, so from it to   *)
(* the final write SW holds the SW bits of pll_src | pll_mul (none for    *)
(* the encodings of source and multiplier); SW is then as at entry only   *)
(* if it had this value at entry; SW is PLL after the final write.        *)
C15_FirstWriteSetsSwFromArgs ==
    \A t \in Threads :
        InClkInit(t) =>
            /\ pc[t] \in BetweenCfgrWrites =>
                 /\ Sw(mem["RCC_CFGR"]) = Sw(Or(args[t].pll_src, args[t].pll_mul))
                 /\ (Sw(mem["RCC_CFGR"]) = Sw(pre[t]["RCC_CFGR"]))
                      <=> (Sw(pre[t]["RCC_CFGR"]) = Sw(Or(args[t].pll_src, args[t].pll_mul)))
            /\ pc[t] \in AfterSwitch => Sw(mem["RCC_CFGR"]) = RCC_CFGR_SW_PLL

C15_Witness ==
    /\ InClkInit("main")
    /\ pc["main"] = "ci_wait_hse"
    /\ Sw(pre["main"]["RCC_CFGR"]) = RCC_CFGR_SW_PLL
    /\ Sw(mem["RCC_CFGR"]) = {}

----------------------------------------------------------------------------
(* A call of a peripheral operation with a device of the table, or of     *)
(* rcc_set_prescaler with a divider inside the mask of its selector       *)
PeripheralCall(t) ==
    \/ op[t] \in {"rcc_clk_enable", "rcc_reset_dev"} /\ args[t].dev \in DevIds
    \/ /\ op[t] = "rcc_set_prescaler"
       /\ args[t].divider \subseteq masks[args[t].prescaler]

CrWrites(l) == {i \in 1 .. Len(l) : l[i][1] = "RCC_CR"}

(* C16: the clock tree never moves backwards.  Within rcc_clk_init, once  *)
(* a control-register write has HSEON (PLLON) set, every later            *)
(* control-register write of the call has it set too.  No step of         *)
(* rcc_clk_enable or rcc_reset_dev for a device of the table, or of       *)
(* rcc_set_prescaler with a divider inside the mask, changes SW away from *)
(* PLL or clears HSEON or PLLON, so these calls keep the state reached at *)
(* the return of rcc_clk_init.                                            *)
C16_NeverBackwards ==
    /\ [](\A t \in Threads :
            InClkInit(t) =>
                \A i, j \in CrWrites(log[t]) :
                    i < j =>
                        /\ HasHseOn(log[t][i][2]) => HasHseOn(log[t][j][2])
                        /\ HasPllOn(log[t][i][2]) => HasPllOn(log[t][j][2]))
    /\ [][\A t \in Threads :
            PeripheralCall(t) =>
                /\ SelectsPll(mem["RCC_CFGR"]) => SelectsPll(mem'["RCC_CFGR"])
                /\ HasHseOn(mem["RCC_CR"]) => HasHseOn(mem'["RCC_CR"])
                /\ HasPllOn(mem["RCC_CR"]) => HasPllOn(mem'["RCC_CR"])]_vars

C16_Witness ==
    /\ prev["main"].op = "rcc_clk_init"
    /\ Returned("main", "rcc_set_prescaler")
    /\ args["main"].prescaler = "RCC_PRESCALER_AHB"
    /\ args["main"].divider = Shl(8, 4)
    /\ pre["main"]["RCC_CFGR"] # mem["RCC_CFGR"]
    /\ SelectsPll(mem["RCC_CFGR"])
    /\ HasHseOn(mem["RCC_CR"])
    /\ HasPllOn(mem["RCC_CR"])

----------------------------------------------------------------------------
(* The bit positions of the prescaler fields *)
FieldBits(p) ==
    CASE p = "RCC_PRESCALER_AHB" -> 4 .. 7
      [] p = "RCC_PRESCALER_APB1" -> 8 .. 10
      [] p = "RCC_PRESCALER_APB2" -> 11 .. 13
      [] p = "RCC_PRESCALER_USB" -> {22}
      [] p = "RCC_PRESCALER_ADC" -> 14 .. 15

(* C17: rcc_set_prescaler writes one value to the configuration register, *)
(* (old AND NOT mask) OR divider, where old is the register before the    *)
(* call and mask is bits 4-7 for AHB, 8-10 for APB1, 11-13 for APB2, 22   *)
(* for USB and 14-15 for ADC; when divider lies inside the mask the field *)
(* equals divider after the call.                                         *)
C17_PrescalerValue ==
    \A t \in Threads :
        Returned(t, "rcc_set_prescaler") =>
            LET m == FieldBits(args[t].prescaler)
                d == args[t].divider
                old == pre[t]["RCC_CFGR"]
            IN  /\ log[t] = << <<"RCC_CFGR", (old \ m) \cup d>> >>
                /\ d \subseteq m => mem["RCC_CFGR"] \cap m = d

C17_Witness ==
    /\ Returned("main", "rcc_set_prescaler")
    /\ args["main"].prescaler = "RCC_PRESCALER_APB1"
    /\ args["main"].divider = {}
    /\ pre["main"]["RCC_CFGR"] = RunningCfgr
    /\ mem["RCC_CFGR"] = RunningCfgr \ {10}

----------------------------------------------------------------------------
(* The reset register of the bus of a table device *)
OwnResetReg(d) ==
    IF rcc_dev_table[d].clk_domain = "APB1" THEN "RCC_APB1RSTR" ELSE "RCC_APB2RSTR"

(* C18: for an identifier in the device table, rcc_reset_dev leaves the  *)
(* three enable registers, the control register, the configuration       *)
(* register and the other bus's reset register as they were at entry.    *)
C18_ResetFrame ==
    \A t \in Threads :
        (op[t] = "rcc_reset_dev" /\ args[t].dev \in DevIds) =>
            \A r \in Regs \ {OwnResetReg(args[t].dev)} : mem[r] = pre[t][r]

C18_Witness ==
    /\ Returned("main", "rcc_reset_dev")
    /\ args["main"].dev = "RCC_TIMER2"
    /\ 0 \in pre["main"]["RCC_APB1RSTR"]
    /\ 0 \notin mem["RCC_APB1RSTR"]
    /\ 0 \in mem["RCC_APB2RSTR"]
    /\ 0 \in mem["RCC_APB1ENR"]

----------------------------------------------------------------------------
CfgrWrites(l) == {i \in 1 .. Len(l) : l[i][1] = "RCC_CFGR"}
PrescalerFields ==
    Or(Or(RCC_CFGR_HPRE, Or(RCC_CFGR_PPRE1, RCC_CFGR_PPRE2)),
       Or(RCC_CFGR_ADCPRE, RCC_CFGR_USBPRE))

(* C19: both configuration-register writes of rcc_clk_init depend on the  *)
(* arguments only: the first stores pll_src | pll_mul, the last stores    *)
(* that value with SW replaced by PLL, whatever the register held.  When  *)
(* rcc_clk_init returns, every prescaler bit outside pll_src | pll_mul is *)
(* zero, also after rcc_set_prescaler calls.                              *)
C19_CfgrFromArgsOnly ==
    \A t \in Threads :
        op[t] = "rcc_clk_init" =>
            LET a == Or(args[t].pll_src, args[t].pll_mul)
                w == CfgrWrites(log[t])
            IN  /\ \A i \in w :
                       log[t][i][2] =
                           IF i = 1 THEN a
                           ELSE Or(And(a, Not(RCC_CFGR_SW)), RCC_CFGR_SW_PLL)
                /\ pc[t] = "ret" =>
                       /\ Cardinality(w) = 2
                       /\ 1 \in w
                       /\ log[t][Len(log[t])][1] = "RCC_CFGR"
                       /\ And(mem["RCC_CFGR"], PrescalerFields) \ a = {}

C19_Witness ==
    /\ Returned("main", "rcc_clk_init")
    /\ prev["main"].op = "rcc_set_prescaler"
    /\ 7 \in pre["main"]["RCC_CFGR"]
    /\ And(mem["RCC_CFGR"], PrescalerFields) = {}

----------------------------------------------------------------------------
(* The values rcc_clk_init has written to the control register, in order *)
CrValues(l) == SelectSeq(l, LAMBDA e : e[1] = "RCC_CR")

(* C20: rcc_clk_init composes its control-register writes from the value  *)
(* read at entry: the first write stores entry | HSEON and the second     *)
(* entry | HSEON | PLLON, so every other bit, HSERDY included, is written *)
(* with its entry value and not its current one.                          *)
C20_CrFromEntryValue ==
    \A t \in Threads :
        op[t] = "rcc_clk_init" =>
            LET w == CrValues(log[t])
                entry == pre[t]["RCC_CR"]
            IN  /\ Len(w) <= 2
                /\ Len(w) >= 1 => w[1][2] = Or(entry, RCC_CR_HSEON)
                /\ Len(w) >= 2 =>
                       w[2][2] = Or(entry, Or(RCC_CR_HSEON, RCC_CR_PLLON))
                /\ pc[t] \in AfterPllOn => Len(w) = 2

C20_Witness ==
    /\ At("main", "rcc_clk_init", "ci_wait_pll")
    /\ pre["main"]["RCC_CR"] = {}
    /\ Len(CrValues(log["main"])) = 2
    /\ And(CrValues(log["main"])[2][2], RCC_CR_HSERDY) = {}
    /\ And(mem["RCC_CR"], RCC_CR_HSERDY) # {}

====
